---------------------------- MODULE Spec2Model ----------------------------
(***************************************************************************)
(* A model of cached_property.py: the four descriptor classes              *)
(*   cached_property, threaded_cached_property,                            *)
(*   cached_property_with_ttl, threaded_cached_property_with_ttl           *)
(* as a state machine over owning instances, their __dict__ / _cache       *)
(* attributes, the accessor's RLock, the clock read by time(), and the     *)
(* position of every calling thread inside __get__ / __delete__.           *)
(*                                                                         *)
(* Conventions.                                                            *)
(*  - Thread ids are 1..NumThreads; 0 stands for "no thread" (a free lock) *)
(*    and for "no dict object" (a missing _cache attribute).               *)
(*  - An RLock is its owner and its recursion count: the owner acquires it *)
(*    again without blocking, and it is free when the count is back at 0.  *)
(*  - The producer is opaque but for one thing it may do: read the same    *)
(*    field of another instance, which runs __get__ again on the same      *)
(*    thread; stack holds the locals of the enclosing calls.               *)
(*  - A Python dict is a function whose DOMAIN is its key set; <<>> is the *)
(*    empty dict.  A dict object created by `obj._cache = {}` is named by  *)
(*    the thread that created it: a thread creates at most one per         *)
(*    instance, because once the attribute exists it is never removed.     *)
(*  - The code never inspects the producer's result, so the result of the  *)
(*    k-th invocation of the producer for (instance, field) is the tag k.  *)
(*  - self.ttl is <<>> for None and <<n>> for the number n.                *)
(*  - time() is read from a non-decreasing clock.                          *)
(*  - log and probe are observers: they record what completed operations   *)
(*    returned and never influence the program; window is how many         *)
(*    completed operations the observer keeps.                             *)
(***************************************************************************)
EXTENDS Integers, Sequences, FiniteSets, TLC

\* ------------------------------------------------------------- bounds
NumThreads == 2
MaxClock == 3
MaxCalls == 2
MaxTodo == 3
MaxNest == 1

Threads == 1..NumThreads
Instances == {"A", "B"}
Names == {"f", "g"}

ShadowKinds == {"cached_property", "threaded_cached_property"}
ExpiringKinds == {"cached_property_with_ttl", "threaded_cached_property_with_ttl"}
GuardedKinds == {"threaded_cached_property", "threaded_cached_property_with_ttl"}
Kinds == ShadowKinds \cup ExpiringKinds

\* which instances exist and which names the owning class binds
Worlds == {<<{"A"}, {"f"}>>, <<{"A", "B"}, {"f"}>>, <<{"A"}, {"f", "g"}>>}

\* the arguments given to cached_property_with_ttl(ttl=...)
TTLs == {<<>>, <<-1>>, <<0>>, <<1>>, <<2>>}

VARIABLES
  kind,       \* the descriptor class the fields are bound with
  ttl,        \* self.ttl
  callers,    \* the threads that call; {1} is a sequential caller
  objs,       \* the owning instances that exist
  props,      \* the field names bound in the owning class (func.__name__)
  clock,      \* what time() returns
  lock,       \* self.lock, per binding: the RLock's owner (0 when free) and count
  obj_dict,   \* obj.__dict__, restricted to the bound names
  obj_cache,  \* obj._cache: the dict object it refers to, 0 when unset
  dicts,      \* the dict objects: dicts[i][d] is the dict thread d created for i
  raises,     \* whether self.func can raise
  window,     \* how many completed operations the observer keeps
  watch,      \* whether the observer records when invocations start
  nests,      \* whether self.func reads the field of another instance
  todo,       \* how many more reads and deletes will be made, -1: no limit
  calls,      \* producer invocations started, per instance and field
  pc,         \* each thread's position
  obj,        \* each thread's local: the instance it serves
  fld,        \* each thread's local: the binding it runs (self)
  now,        \* each thread's local `now`
  inv,        \* which invocation of self.func the thread is in, 0 if none
  value,      \* each thread's local `value`
  last_update,\* each thread's local `last_update`, -1 while unbound
  cache,      \* each thread's local `cache` / the dict loaded from obj._cache
  stack,      \* each thread's enclosing calls of __get__, innermost first
  log,        \* the last `window` completed operations, oldest first
  probe,      \* <<now, last_update>> of the last completed __get__
  begun       \* begun[i][f][k]: the clock when invocation k was entered

vars == <<kind, ttl, callers, objs, props, raises, window, watch, nests, todo,
          clock,
          lock,
          obj_dict,
          obj_cache, dicts, calls, pc, obj, fld, now, inv, value, last_update,
          cache, stack, log, probe, begun>>

\* what is fixed when the classes and instances are set up
setup == <<kind, ttl, callers, objs, props, raises, window, watch, nests>>
\* what no step inside __get__ or __delete__ changes
config == <<setup, todo>>
locals == <<obj, fld, now, inv, value, last_update, cache, stack>>
history == <<log, probe, begun>>

\* ------------------------------------------------------------ helpers
EmptyDict == <<>>

DictSet(d, k, v) == [x \in DOMAIN d \cup {k} |-> IF x = k THEN v ELSE d[x]]

DictDelNothing(d, k) == d

DictDelAll(d, k) == EmptyDict

DictDel(d, k) == [x \in DOMAIN d \ {k} |-> d[x]]

Rec(i, f, out, val) == [i |-> i, f |-> f, out |-> out, val |-> val]

Push(h, r) ==
  IF window = 0 THEN h
  ELSE IF Len(h) < window THEN Append(h, r)
  ELSE Append(Tail(h), r)

Seen(nw, lu) == IF window = 0 THEN probe ELSE <<nw, lu>>

Guarded == kind \in GuardedKinds

Unlocked == [owner |-> 0, count |-> 0]

\* RLock.release: the count goes down by one, and the lock is free at 0
Released(l) ==
  IF l.count = 1 THEN Unlocked ELSE [owner |-> l.owner, count |-> l.count - 1]

\* leaving `with self.lock:`; the unguarded classes have no lock
Release(t) ==
  IF Guarded THEN lock' = [lock EXCEPT ![fld[t]] = Released(@)]
  ELSE UNCHANGED lock

\* the locals of the call of __get__ the thread is in
Frame(t) ==
  [obj |-> obj[t], fld |-> fld[t], now |-> now[t], inv |-> inv[t],
   value |-> value[t], last_update |-> last_update[t], cache |-> cache[t]]

\* The thread is back where the call was made: in its caller, or in the
\* producer that read the field, whose __get__ has its locals again.  The
\* producer goes on whether the read returned or raised.
Finish(t) ==
  IF stack[t] = <<>>
  THEN /\ pc' = [pc EXCEPT ![t] = "idle"]
       /\ obj' = [obj EXCEPT ![t] = "A"]
       /\ fld' = [fld EXCEPT ![t] = "f"]
       /\ now' = [now EXCEPT ![t] = 0]
       /\ inv' = [inv EXCEPT ![t] = 0]
       /\ value' = [value EXCEPT ![t] = 0]
       /\ last_update' = [last_update EXCEPT ![t] = -1]
       /\ cache' = [cache EXCEPT ![t] = 0]
       /\ UNCHANGED stack
  ELSE LET fr == Head(stack[t])
       IN /\ pc' = [pc EXCEPT ![t] = "running"]
          /\ obj' = [obj EXCEPT ![t] = fr.obj]
          /\ fld' = [fld EXCEPT ![t] = fr.fld]
          /\ now' = [now EXCEPT ![t] = fr.now]
          /\ inv' = [inv EXCEPT ![t] = fr.inv]
          /\ value' = [value EXCEPT ![t] = fr.value]
          /\ last_update' = [last_update EXCEPT ![t] = fr.last_update]
          /\ cache' = [cache EXCEPT ![t] = fr.cache]
          /\ stack' = [stack EXCEPT ![t] = Tail(@)]

\* a caller that is not inside a call and has a call left to make
CanStart(t) == t \in callers /\ pc[t] = "idle" /\ todo # 0

\* one of the reads and deletes that will be made is made
Spend == todo' = IF todo > 0 THEN todo - 1 ELSE todo

\* variant: expiry already at now - last_update = ttl
ExpiredStrict(tl, nw, lu) ==
  /\ tl # <<>>
  /\ tl[1] # 0
  /\ tl[1] > 0
  /\ nw - lu >= tl[1]

\* variant: without the `self.ttl > 0` test
ExpiredAnySign(tl, nw, lu) ==
  /\ tl # <<>>
  /\ tl[1] # 0
  /\ nw - lu > tl[1]

\* `self.ttl and self.ttl > 0 and now - last_update > self.ttl`
Expired(tl, nw, lu) ==
  /\ tl # <<>>
  /\ tl[1] # 0
  /\ tl[1] > 0
  /\ nw - lu > tl[1]

\* variant: the stored name never shadows the descriptor
ShadowedNever(i, f) == FALSE

\* attribute lookup on the instance finds the name in obj.__dict__ before it
\* reaches a descriptor that defines neither __set__ nor __delete__
Shadowed(i, f) == f \in DOMAIN obj_dict[i]

\* variant: one _cache shared by all instances
HolderShared(i) == "A"

\* the object whose _cache attribute __get__ and __delete__ use: obj
Holder(i) == i

\* variant: a lock that never blocks
LockFreeAlways(f, t) == TRUE

\* acquiring the RLock blocks until no other thread owns it: it is free, or
\* the thread itself owns it
LockFree(f, t) == lock[f].owner \in {0, t}

\* ---------------------------------------------------------------- Init
Init ==
  /\ kind \in Kinds
  /\ ttl \in IF kind \in ExpiringKinds THEN TTLs ELSE {<<>>}
  /\ callers \in {1..n : n \in 1..NumThreads}
  /\ \E w \in Worlds : objs = w[1] /\ props = w[2]
  /\ raises \in BOOLEAN
  /\ window \in 0..3
  /\ watch \in BOOLEAN
  /\ nests \in BOOLEAN
  /\ todo \in {-1, MaxTodo}
  /\ clock = 0
  /\ lock = [f \in Names |-> Unlocked]
  /\ obj_dict = [i \in Instances |-> EmptyDict]
  /\ obj_cache = [i \in Instances |-> 0]
  /\ dicts = [i \in Instances |-> [d \in Threads |-> EmptyDict]]
  /\ calls = [i \in Instances |-> [f \in Names |-> 0]]
  /\ pc = [t \in Threads |-> "idle"]
  /\ obj = [t \in Threads |-> "A"]
  /\ fld = [t \in Threads |-> "f"]
  /\ now = [t \in Threads |-> 0]
  /\ inv = [t \in Threads |-> 0]
  /\ value = [t \in Threads |-> 0]
  /\ last_update = [t \in Threads |-> -1]
  /\ cache = [t \in Threads |-> 0]
  /\ stack = [t \in Threads |-> <<>>]
  /\ log = <<>>
  /\ probe = <<0, -1>>
  /\ begun = [i \in Instances |-> [f \in Names |-> <<>>]]

\* ------------------------------------------------------------- actions
\* time passes
Tick ==
  /\ clock < MaxClock
  /\ clock' = clock + 1
  /\ UNCHANGED <<config, lock, obj_dict, obj_cache, dicts, calls, pc, locals,
                 history>>

\* Reading obj.f when obj.__dict__ holds f: the shadowing classes define no
\* __set__ / __delete__, so the instance's value is returned and __get__ does
\* not run.
ReadShadowed(t, i, f) ==
  /\ CanStart(t)
  /\ Spend
  /\ kind \in ShadowKinds
  /\ Shadowed(i, f)
  /\ log' = Push(log, Rec(i, f, "bypass", obj_dict[i][f]))
  /\ UNCHANGED <<begun, setup, clock, lock, obj_dict, obj_cache, dicts, calls,
                 pc, locals, probe>>

\* Reading obj.f when obj.__dict__ does not hold f: __get__(obj, cls) runs.
ReadEnter(t, i, f) ==
  /\ CanStart(t)
  /\ Spend
  /\ kind \in ShadowKinds
  /\ ~Shadowed(i, f)
  /\ calls[i][f] < MaxCalls
  /\ pc' = [pc EXCEPT ![t] = IF Guarded THEN "acquire" ELSE "call"]
  /\ obj' = [obj EXCEPT ![t] = i]
  /\ fld' = [fld EXCEPT ![t] = f]
  /\ UNCHANGED <<setup, clock, lock, obj_dict, obj_cache, dicts, calls, now,
                 inv, value, last_update, cache, stack, history>>

\* Reading obj.f of an expiring class: it defines __delete__, so __get__ runs on
\* every read.
GetEnter(t, i, f) ==
  /\ CanStart(t)
  /\ Spend
  /\ kind \in ExpiringKinds
  /\ calls[i][f] < MaxCalls
  /\ pc' = [pc EXCEPT ![t] = IF Guarded THEN "acquire" ELSE "time"]
  /\ obj' = [obj EXCEPT ![t] = i]
  /\ fld' = [fld EXCEPT ![t] = f]
  /\ UNCHANGED <<setup, clock, lock, obj_dict, obj_cache, dicts, calls, now,
                 inv, value, last_update, cache, stack, history>>

\* `with self.lock:`
Acquire(t) ==
  /\ pc[t] = "acquire"
  /\ LockFree(fld[t], t)
  /\ lock' = [lock EXCEPT ![fld[t]] = [owner |-> t, count |-> @.count + 1]]
  /\ pc' = [pc EXCEPT ![t] = IF kind \in ShadowKinds THEN "check" ELSE "time"]
  /\ UNCHANGED <<config, clock, obj_dict, obj_cache, dicts, calls, locals,
                 history>>

\* threaded_cached_property: `return obj_dict[name]` finds the value
CheckHit(t) ==
  /\ pc[t] = "check"
  /\ fld[t] \in DOMAIN obj_dict[obj[t]]
  /\ log' = Push(log, Rec(obj[t], fld[t], "hit", obj_dict[obj[t]][fld[t]]))
  /\ Release(t)
  /\ Finish(t)
  /\ UNCHANGED <<begun, config, clock, obj_dict, obj_cache, dicts, calls,
                 probe>>

\* threaded_cached_property: `return obj_dict[name]` raises KeyError
CheckMiss(t) ==
  /\ pc[t] = "check"
  /\ fld[t] \notin DOMAIN obj_dict[obj[t]]
  /\ pc' = [pc EXCEPT ![t] = "call"]
  /\ UNCHANGED <<config, clock, lock, obj_dict, obj_cache, dicts, calls,
                 locals, history>>

\* self.func(obj) is entered: the thread runs the next invocation
ProducerStart(t) ==
  /\ pc[t] = "call"
  /\ calls' = [calls EXCEPT ![obj[t]][fld[t]] = @ + 1]
  /\ inv' = [inv EXCEPT ![t] = calls[obj[t]][fld[t]] + 1]
  /\ pc' = [pc EXCEPT ![t] = "running"]
  /\ begun' = IF watch
              THEN [begun EXCEPT ![obj[t]][fld[t]] = Append(@, clock)]
              ELSE begun
  /\ UNCHANGED <<config, clock, lock, obj_dict, obj_cache, dicts, obj, fld,
                 now, value, last_update, cache, stack, log, probe>>

\* self.func(obj) returns; the result of the k-th invocation is k
ProducerReturn(t) ==
  /\ pc[t] = "running"
  /\ value' = [value EXCEPT ![t] = inv[t]]
  /\ pc' = [pc EXCEPT ![t] = IF kind \in ShadowKinds THEN "set" ELSE "getcache"]
  /\ UNCHANGED <<config, clock, lock, obj_dict, obj_cache, dicts, calls, obj,
                 fld, now, inv, last_update, cache, stack, history>>

\* variant: an exception leaves the lock with the thread
KeepsLockOnRaise(t) == UNCHANGED lock

\* an exception leaving `with self.lock:` releases the lock
ReleaseOnRaise(t) == Release(t)

\* self.func(obj) raises: no handler in __get__ catches it, `with` releases
ProducerRaise(t) ==
  /\ pc[t] = "running"
  /\ raises
  /\ log' = Push(log, Rec(obj[t], fld[t], "raised", 0))
  /\ probe' = IF kind \in ExpiringKinds THEN Seen(now[t], last_update[t])
              ELSE probe
  /\ ReleaseOnRaise(t)
  /\ Finish(t)
  /\ UNCHANGED <<begun, config, clock, obj_dict, obj_cache, dicts, calls>>

\* self.func(obj) reads the same field of another instance j, one that no
\* enclosing call of the thread is computing.  A stored value of a shadowing
\* class is returned at once; otherwise __get__(j, cls) runs on this thread
\* while the producer waits for it.
ProducerReads(t, j) ==
  /\ pc[t] = "running"
  /\ nests
  /\ todo # 0
  /\ Spend
  /\ Len(stack[t]) < MaxNest
  /\ j # obj[t]
  /\ \A k \in 1..Len(stack[t]) : stack[t][k].obj # j
  /\ IF kind \in ShadowKinds /\ Shadowed(j, fld[t])
     THEN /\ log' = Push(log, Rec(j, fld[t], "bypass", obj_dict[j][fld[t]]))
          /\ UNCHANGED <<pc, locals>>
     ELSE /\ calls[j][fld[t]] < MaxCalls
          /\ stack' = [stack EXCEPT ![t] = <<Frame(t)>> \o @]
          /\ pc' = [pc EXCEPT ![t] = IF Guarded THEN "acquire"
                                    ELSE IF kind \in ShadowKinds THEN "call"
                                    ELSE "time"]
          /\ obj' = [obj EXCEPT ![t] = j]
          /\ now' = [now EXCEPT ![t] = 0]
          /\ inv' = [inv EXCEPT ![t] = 0]
          /\ value' = [value EXCEPT ![t] = 0]
          /\ last_update' = [last_update EXCEPT ![t] = -1]
          /\ cache' = [cache EXCEPT ![t] = 0]
          /\ UNCHANGED <<fld, log>>
  /\ UNCHANGED <<setup, clock, lock, obj_dict, obj_cache, dicts, calls, probe,
                 begun>>

\* variant: every class keeps a value that is already stored
KeepsAlways(i, f) == f \in DOMAIN obj_dict[i]

\* whether the store keeps a value that is already there: only setdefault does
Keeps(i, f) == kind = "threaded_cached_property" /\ f \in DOMAIN obj_dict[i]

\* cached_property: `value = obj.__dict__[name] = self.func(obj)`
\* threaded_cached_property:
\* `return obj_dict.setdefault(name, self.func(obj))`, which keeps a value
\* that is already there
SetValue(t) ==
  /\ pc[t] = "set"
  /\ LET i == obj[t]
         f == fld[t]
         v == IF Keeps(i, f) THEN obj_dict[i][f] ELSE value[t]
     IN /\ obj_dict' = [obj_dict EXCEPT ![i] = DictSet(@, f, v)]
        /\ log' = Push(log, Rec(i, f, "miss", v))
  /\ Release(t)
  /\ Finish(t)
  /\ UNCHANGED <<begun, config, clock, obj_cache, dicts, calls, probe>>

\* `now = time()`
ReadTime(t) ==
  /\ pc[t] = "time"
  /\ now' = [now EXCEPT ![t] = clock]
  /\ pc' = [pc EXCEPT ![t] = "load"]
  /\ UNCHANGED <<config, clock, lock, obj_dict, obj_cache, dicts, calls, obj,
                 fld, inv, value, last_update, cache, stack, history>>

\* `obj._cache` in `obj._cache[self.__name__]`: the attribute exists
LoadCache(t) ==
  /\ pc[t] = "load"
  /\ obj_cache[Holder(obj[t])] # 0
  /\ cache' = [cache EXCEPT ![t] = obj_cache[Holder(obj[t])]]
  /\ pc' = [pc EXCEPT ![t] = "item"]
  /\ UNCHANGED <<config, clock, lock, obj_dict, obj_cache, dicts, calls, obj,
                 fld, now, inv, value, last_update, stack, history>>

\* what the `except (KeyError, AttributeError)` branch does to obj._cache
\* before it calls the producer: nothing
CreateOnAttributeError(t) ==
  obj_cache' = [obj_cache EXCEPT ![Holder(obj[t])] = t]

KeepOnAttributeError(t) == UNCHANGED obj_cache

\* `obj._cache` raises AttributeError, caught by `except`
LoadCacheMissing(t) ==
  /\ pc[t] = "load"
  /\ obj_cache[Holder(obj[t])] = 0
  /\ pc' = [pc EXCEPT ![t] = "call"]
  /\ KeepOnAttributeError(t)
  /\ UNCHANGED <<config, clock, lock, obj_dict, dicts, calls, locals, history>>

\* `...[self.__name__]` raises KeyError, caught by `except`
ItemKeyError(t) ==
  /\ pc[t] = "item"
  /\ fld[t] \notin DOMAIN dicts[Holder(obj[t])][cache[t]]
  /\ pc' = [pc EXCEPT ![t] = "call"]
  /\ cache' = [cache EXCEPT ![t] = 0]
  /\ UNCHANGED <<config, clock, lock, obj_dict, obj_cache, dicts, calls, obj,
                 fld, now, inv, value, last_update, stack, history>>

\* `value, last_update = ...[self.__name__]`, and the ttl test raises
\* AttributeError, caught by `except`
ItemExpired(t) ==
  /\ pc[t] = "item"
  /\ LET d == dicts[Holder(obj[t])][cache[t]]
     IN /\ fld[t] \in DOMAIN d
        /\ Expired(ttl, now[t], d[fld[t]][2])
        /\ value' = [value EXCEPT ![t] = d[fld[t]][1]]
        /\ last_update' = [last_update EXCEPT ![t] = d[fld[t]][2]]
  /\ pc' = [pc EXCEPT ![t] = "call"]
  /\ cache' = [cache EXCEPT ![t] = 0]
  /\ UNCHANGED <<config, clock, lock, obj_dict, obj_cache, dicts, calls, obj,
                 fld, now, inv, stack, history>>

\* variant: a hit stamps the entry with the time of the read
HitRefreshes(t) ==
  dicts' = [dicts EXCEPT ![Holder(obj[t])][cache[t]] =
              DictSet(@, fld[t], <<@[fld[t]][1], now[t]>>)]

\* what a hit writes between the ttl test and `return value`: nothing
HitWrites(t) == UNCHANGED dicts

\* `value, last_update = ...[self.__name__]`, the ttl test passes:
\* `return value`
ItemHit(t) ==
  /\ pc[t] = "item"
  /\ LET d == dicts[Holder(obj[t])][cache[t]]
     IN /\ fld[t] \in DOMAIN d
        /\ ~Expired(ttl, now[t], d[fld[t]][2])
        /\ log' = Push(log, Rec(obj[t], fld[t], "hit", d[fld[t]][1]))
        /\ probe' = Seen(now[t], d[fld[t]][2])
  /\ HitWrites(t)
  /\ Release(t)
  /\ Finish(t)
  /\ UNCHANGED <<begun, config, clock, obj_dict, obj_cache, calls>>

\* `cache = obj._cache` succeeds
GetCache(t) ==
  /\ pc[t] = "getcache"
  /\ obj_cache[Holder(obj[t])] # 0
  /\ cache' = [cache EXCEPT ![t] = obj_cache[Holder(obj[t])]]
  /\ pc' = [pc EXCEPT ![t] = "store"]
  /\ UNCHANGED <<config, clock, lock, obj_dict, obj_cache, dicts, calls, obj,
                 fld, now, inv, value, last_update, stack, history>>

\* `cache = obj._cache` raises AttributeError
GetCacheMissing(t) ==
  /\ pc[t] = "getcache"
  /\ obj_cache[Holder(obj[t])] = 0
  /\ pc' = [pc EXCEPT ![t] = "mkcache"]
  /\ UNCHANGED <<config, clock, lock, obj_dict, obj_cache, dicts, calls,
                 locals, history>>

\* `cache = obj._cache = {}`
MakeCache(t) ==
  /\ pc[t] = "mkcache"
  /\ dicts' = [dicts EXCEPT ![Holder(obj[t])][t] = EmptyDict]
  /\ obj_cache' = [obj_cache EXCEPT ![Holder(obj[t])] = t]
  /\ cache' = [cache EXCEPT ![t] = t]
  /\ pc' = [pc EXCEPT ![t] = "store"]
  /\ UNCHANGED <<config, clock, lock, obj_dict, calls, obj, fld, now, inv,
                 value, last_update, stack, history>>

\* variant: the entry is stamped with the time of the store
StampAtStore(t) == clock

\* the timestamp of a new entry: the local `now`, read at the top of __get__
Stamp(t) == now[t]

\* `cache[self.__name__] = (value, now)`, then `return value`
StoreEntry(t) ==
  /\ pc[t] = "store"
  /\ dicts' = [dicts EXCEPT ![Holder(obj[t])][cache[t]] =
                 DictSet(@, fld[t], <<value[t], Stamp(t)>>)]
  /\ log' = Push(log, Rec(obj[t], fld[t], "miss", value[t]))
  /\ probe' = Seen(now[t], last_update[t])
  /\ Release(t)
  /\ Finish(t)
  /\ UNCHANGED <<begun, config, clock, obj_dict, obj_cache, calls>>

\* variant: __delete__ waits until no thread owns the lock
DeleteWaitsForLock(f, t) == lock[f].owner = 0

\* what __delete__ waits for: nothing, it has no `with self.lock`
DeleteMayRun(f, t) == TRUE

\* __delete__: `obj._cache` raises AttributeError, which is passed over
DeleteNoCache(t, i, f) ==
  /\ CanStart(t)
  /\ Spend
  /\ DeleteMayRun(f, t)
  /\ kind \in ExpiringKinds
  /\ obj_cache[Holder(i)] = 0
  /\ log' = Push(log, Rec(i, f, "del", 0))
  /\ UNCHANGED <<begun, setup, clock, lock, obj_dict, obj_cache, dicts, calls,
                 pc, locals, probe>>

\* __delete__: `obj._cache` is loaded
DeleteEnter(t, i, f) ==
  /\ CanStart(t)
  /\ Spend
  /\ DeleteMayRun(f, t)
  /\ kind \in ExpiringKinds
  /\ obj_cache[Holder(i)] # 0
  /\ pc' = [pc EXCEPT ![t] = "del"]
  /\ obj' = [obj EXCEPT ![t] = i]
  /\ fld' = [fld EXCEPT ![t] = f]
  /\ cache' = [cache EXCEPT ![t] = obj_cache[Holder(i)]]
  /\ UNCHANGED <<setup, clock, lock, obj_dict, obj_cache, dicts, calls, now,
                 inv, value, last_update, stack, history>>

\* __delete__: `del ...[self.__name__]`; a KeyError is passed over
DeleteItem(t) ==
  /\ pc[t] = "del"
  /\ DeleteMayRun(fld[t], t)
  /\ dicts' = [dicts EXCEPT ![Holder(obj[t])][cache[t]] = DictDel(@, fld[t])]
  /\ log' = Push(log, Rec(obj[t], fld[t], "del", 0))
  /\ Finish(t)
  /\ UNCHANGED <<begun, config, clock, lock, obj_dict, obj_cache, calls, probe>>

\* ------------------------------------------------------- specifications
NextShadow ==
  \/ \E t \in Threads, i \in objs, f \in props :
       \/ ReadShadowed(t, i, f)
       \/ ReadEnter(t, i, f)
  \/ \E t \in Threads :
       \/ Acquire(t)
       \/ CheckHit(t)
       \/ CheckMiss(t)
       \/ ProducerStart(t)
       \/ ProducerReturn(t)
       \/ ProducerRaise(t)
       \/ SetValue(t)

NextGet ==
  \/ Tick
  \/ \E t \in Threads, i \in objs, f \in props : GetEnter(t, i, f)
  \/ \E t \in Threads :
       \/ Acquire(t)
       \/ ProducerStart(t)
       \/ ProducerReturn(t)
       \/ ProducerRaise(t)
       \/ ReadTime(t)
       \/ LoadCache(t)
       \/ LoadCacheMissing(t)
       \/ ItemKeyError(t)
       \/ ItemExpired(t)
       \/ ItemHit(t)
       \/ GetCache(t)
       \/ GetCacheMissing(t)
       \/ MakeCache(t)
       \/ StoreEntry(t)

NextDelete ==
  \/ \E t \in Threads, i \in objs, f \in props :
       \/ DeleteNoCache(t, i, f)
       \/ DeleteEnter(t, i, f)
  \/ \E t \in Threads : DeleteItem(t)

NextExpiring == NextGet \/ NextDelete

NextNested == \E t \in Threads, j \in objs : ProducerReads(t, j)

Next == NextShadow \/ NextExpiring \/ NextNested

\* one instance with one field; two instances of one class; two fields
OneField == objs = {"A"} /\ props = {"f"}
TwoInstances == objs = {"A", "B"} /\ props = {"f"}
TwoFields == objs = {"A"} /\ props = {"f", "g"}

\* A sequential caller of any of the four classes.  CheckHit is left out: it
\* needs a thread that entered __get__ before another thread stored the value.
InitSeq ==
  /\ Init
  /\ ~watch
  /\ ~nests
  /\ todo = -1
  /\ callers = {1}
  /\ OneField
  /\ window = 3

NextSeq ==
  \/ Tick
  \/ \E t \in Threads, i \in objs, f \in props :
       \/ ReadShadowed(t, i, f)
       \/ ReadEnter(t, i, f)
       \/ GetEnter(t, i, f)
       \/ DeleteNoCache(t, i, f)
       \/ DeleteEnter(t, i, f)
  \/ \E t \in Threads :
       \/ Acquire(t)
       \/ CheckMiss(t)
       \/ ProducerStart(t)
       \/ ProducerReturn(t)
       \/ ProducerRaise(t)
       \/ SetValue(t)
       \/ ReadTime(t)
       \/ LoadCache(t)
       \/ LoadCacheMissing(t)
       \/ ItemKeyError(t)
       \/ ItemExpired(t)
       \/ ItemHit(t)
       \/ GetCache(t)
       \/ GetCacheMissing(t)
       \/ MakeCache(t)
       \/ StoreEntry(t)
       \/ DeleteItem(t)

Spec == InitSeq /\ [][NextSeq]_vars

\* a sequential caller that reads an expiring field and never deletes it
InitSeqGet ==
  /\ Init
  /\ ~watch
  /\ ~nests
  /\ todo = -1
  /\ callers = {1}
  /\ kind \in ExpiringKinds
  /\ TwoFields
  /\ window = 2

SpecSeqGet == InitSeqGet /\ [][NextGet]_vars

\* a sequential caller of two expiring fields of one instance
InitFields ==
  /\ Init
  /\ ~watch
  /\ ~nests
  /\ todo = -1
  /\ callers = {1}
  /\ kind \in ExpiringKinds
  /\ ttl \in {<<>>, <<1>>}
  /\ TwoFields
  /\ window = 2

SpecFields == InitFields /\ [][NextExpiring]_vars

\* a sequential caller of one expiring field on two instances
InitPair ==
  /\ Init
  /\ ~watch
  /\ ~nests
  /\ todo = -1
  /\ callers = {1}
  /\ kind \in ExpiringKinds
  /\ ttl \in {<<>>, <<1>>}
  /\ TwoInstances
  /\ window = 1

SpecPair == InitPair /\ [][NextExpiring]_vars

\* every thread reads a shadowing field of two instances
InitShadow ==
  /\ Init
  /\ ~watch
  /\ ~nests
  /\ todo = -1
  /\ callers = Threads
  /\ kind \in ShadowKinds
  /\ TwoInstances
  /\ window = 2

SpecShadow == InitShadow /\ [][NextShadow]_vars

\* Every thread reads a guarded expiring field; nobody deletes it.
\* ItemKeyError is left out: with one field, no __delete__ and the lock held
\* from the lookup to the store, a dict that exists holds the entry.
InitGuardedTTL ==
  /\ Init
  /\ ~watch
  /\ ~nests
  /\ todo = -1
  /\ callers = Threads
  /\ kind = "threaded_cached_property_with_ttl"
  /\ ttl \in {<<1>>, <<2>>}
  /\ OneField
  /\ window = 1

NextGuardedTTL ==
  \/ Tick
  \/ \E t \in Threads, i \in objs, f \in props : GetEnter(t, i, f)
  \/ \E t \in Threads :
       \/ Acquire(t)
       \/ ProducerStart(t)
       \/ ProducerReturn(t)
       \/ ProducerRaise(t)
       \/ ReadTime(t)
       \/ LoadCache(t)
       \/ LoadCacheMissing(t)
       \/ ItemExpired(t)
       \/ ItemHit(t)
       \/ GetCache(t)
       \/ GetCacheMissing(t)
       \/ MakeCache(t)
       \/ StoreEntry(t)

SpecGuardedTTL == InitGuardedTTL /\ [][NextGuardedTTL]_vars

\* two threads make MaxTodo calls in all on a guarded field of two
\* instances; the producer of one instance may read the field of the other
InitGuarded ==
  /\ Init
  /\ ~watch
  /\ nests
  /\ todo = MaxTodo
  /\ callers = {1, 2}
  /\ kind \in GuardedKinds
  /\ kind \in ExpiringKinds => ttl = <<1>>
  /\ TwoInstances
  /\ window = 0

SpecGuarded == InitGuarded /\ [][Next]_vars

\* two threads get and delete an unguarded expiring field of one instance
InitUnguardedTTL ==
  /\ Init
  /\ ~watch
  /\ ~nests
  /\ todo = -1
  /\ callers = {1, 2}
  /\ kind = "cached_property_with_ttl"
  /\ ttl \in {<<>>, <<1>>}
  /\ OneField
  /\ window = 2

\* the unguarded class never reaches `with self.lock:`
NextUnguardedTTL ==
  \/ Tick
  \/ \E t \in Threads, i \in objs, f \in props :
       \/ GetEnter(t, i, f)
       \/ DeleteNoCache(t, i, f)
       \/ DeleteEnter(t, i, f)
  \/ \E t \in Threads :
       \/ ProducerStart(t)
       \/ ProducerReturn(t)
       \/ ProducerRaise(t)
       \/ ReadTime(t)
       \/ LoadCache(t)
       \/ LoadCacheMissing(t)
       \/ ItemKeyError(t)
       \/ ItemExpired(t)
       \/ ItemHit(t)
       \/ GetCache(t)
       \/ GetCacheMissing(t)
       \/ MakeCache(t)
       \/ StoreEntry(t)
       \/ DeleteItem(t)

SpecUnguardedTTL == InitUnguardedTTL /\ [][NextUnguardedTTL]_vars

\* two threads get and delete a guarded expiring field of one instance
InitGuardedDelete ==
  /\ Init
  /\ ~watch
  /\ ~nests
  /\ todo = -1
  /\ callers = {1, 2}
  /\ kind = "threaded_cached_property_with_ttl"
  /\ ttl \in {<<>>, <<1>>}
  /\ OneField
  /\ window = 2

SpecGuardedDelete == InitGuardedDelete /\ [][NextExpiring]_vars

\* Two threads make MaxTodo calls in all on a guarded field of two
\* instances.  The scheduler lets every thread that is inside a call and can
\* take a step take one eventually; a producer that was entered returns or
\* raises.  Nothing obliges a caller to call, or the clock to advance.
InitLive ==
  /\ Init
  /\ ~watch
  /\ nests
  /\ raises
  /\ todo = MaxTodo
  /\ callers = {1, 2}
  /\ kind \in GuardedKinds
  /\ kind \in ExpiringKinds => ttl = <<1>>
  /\ TwoInstances
  /\ window = 0

\* the steps of thread t inside __get__ or __delete__
Step(t) ==
  \/ Acquire(t)
  \/ CheckHit(t)
  \/ CheckMiss(t)
  \/ ProducerStart(t)
  \/ ProducerReturn(t)
  \/ ProducerRaise(t)
  \/ SetValue(t)
  \/ ReadTime(t)
  \/ LoadCache(t)
  \/ LoadCacheMissing(t)
  \/ ItemKeyError(t)
  \/ ItemExpired(t)
  \/ ItemHit(t)
  \/ GetCache(t)
  \/ GetCacheMissing(t)
  \/ MakeCache(t)
  \/ StoreEntry(t)
  \/ DeleteItem(t)

SpecLive == InitLive /\ [][Next]_vars /\ \A t \in Threads : WF_vars(Step(t))

\* two threads make MaxTodo calls in all, gets and deletes of an expiring
\* field of one instance, guarded or not, and the observer records when each
\* producer invocation is entered
InitWatch ==
  /\ Init
  /\ watch
  /\ ~nests
  /\ todo = MaxTodo
  /\ callers = {1, 2}
  /\ kind \in ExpiringKinds
  /\ ttl = <<1>>
  /\ OneField
  /\ raises
  /\ window = 1

SpecWatch == InitWatch /\ [][NextExpiring]_vars

\* ------------------------------------------------------------- claims
\* the dict obj._cache refers to; the empty dict stands in when it is unset
Store(i) == IF obj_cache[i] = 0 THEN EmptyDict ELSE dicts[i][obj_cache[i]]

HasEntry(i, f) == f \in DOMAIN Store(i)

Positive(tl) == tl # <<>> /\ tl[1] > 0

Returned(r) == r.out \in {"bypass", "hit", "miss"}

\* C1: threaded_cached_property, any number of threads reading the same field
\* of the same instance for the first time: with a producer that returns, the
\* producer is invoked at most once per instance, exactly once as soon as a
\* read has returned, and every read returns the value held in obj.__dict__;
\* whether or not the producer can raise, no invocation starts after the one
\* whose value was stored.
C1_SingleComputation ==
  kind = "threaded_cached_property" =>
    \A i \in objs, f \in props :
      /\ ~raises => calls[i][f] <= 1
      /\ Shadowed(i, f) => obj_dict[i][f] = calls[i][f]
      /\ \A k \in 1..Len(log) :
           (log[k].i = i /\ log[k].f = f /\ Returned(log[k])) =>
             /\ Shadowed(i, f)
             /\ log[k].val = obj_dict[i][f]
             /\ ~raises => calls[i][f] = 1

\* two reads of one field entered __get__ before a value was stored: one
\* computed it, the other found it once it held the lock
C1_Witness ==
  /\ kind = "threaded_cached_property"
  /\ ~raises
  /\ Len(log) = 2
  /\ log[1].i = log[2].i
  /\ log[1].out = "miss"
  /\ log[2].out = "hit"
  /\ log[2].val = log[1].val
  /\ calls[log[1].i]["f"] = 1

\* C2: threaded_cached_property_with_ttl with a positive ttl and no
\* __delete__: while the window of the stored entry is open (the clock is at
\* most ttl past its timestamp), the invocation that produced the entry is
\* the last producer invocation started for that instance and field; and a
\* thread is at, or inside, the producer call only when the stored entry is
\* missing or its window has closed.
C2_OnePerWindow ==
  (kind = "threaded_cached_property_with_ttl" /\ Positive(ttl)) =>
    /\ \A i \in objs, f \in props :
         (HasEntry(i, f) /\ clock - Store(i)[f][2] <= ttl[1]) =>
           calls[i][f] = Store(i)[f][1]
    /\ \A t \in Threads :
         pc[t] \in {"call", "running"} =>
           \/ ~HasEntry(obj[t], fld[t])
           \/ clock - Store(obj[t])[fld[t]][2] > ttl[1]

\* the entry was recomputed after its ttl had elapsed, and a thread that had
\* called get before the recomputation started was then served the new entry
C2_Witness ==
  /\ kind = "threaded_cached_property_with_ttl"
  /\ Positive(ttl)
  /\ HasEntry("A", "f")
  /\ Store("A")["f"][1] = 2
  /\ clock - Store("A")["f"][2] <= ttl[1]
  /\ Len(log) = 1
  /\ log[1].f = "f"
  /\ log[1].out = "hit"
  /\ log[1].val = 2

Idle == \A t \in Threads : pc[t] = "idle"

\* the last completed operation and the one before it
Last == log[Len(log)]
Prev == log[Len(log) - 1]

IsGet(r) == r.out \in {"hit", "miss", "raised"}

\* C3: expiring classes with a positive ttl, sequential gets on one instance:
\* a get that follows a get which returned a value finds that entry; when
\* now - last_update <= ttl (equality included) it returns the stored value
\* and the producer is not invoked; when now - last_update > ttl it invokes
\* the producer again and, unless the producer raises, returns and stores the
\* newly produced value with the timestamp now.
C3_Expiry ==
  (/\ kind \in ExpiringKinds
   /\ Positive(ttl)
   /\ Len(log) >= 2
   /\ Prev.out \in {"hit", "miss"}
   /\ IsGet(Last)) =>
    /\ probe[2] >= 0
    /\ probe[1] - probe[2] <= ttl[1] =>
         /\ Last.out = "hit"
         /\ Last.val = Prev.val
         /\ Idle => Store("A")["f"] = <<Prev.val, probe[2]>>
         /\ (Idle /\ Prev.out = "miss") => calls["A"]["f"] = Prev.val
    /\ probe[1] - probe[2] > ttl[1] =>
         /\ Last.out \in {"miss", "raised"}
         /\ (Idle /\ Prev.out = "miss") => calls["A"]["f"] = Prev.val + 1
         /\ Last.out = "miss" =>
              /\ Last.val > Prev.val
              /\ Idle => Last.val = calls["A"]["f"]
              /\ Idle => Store("A")["f"] = <<Last.val, probe[1]>>

\* a computation, a hit inside the window, then a recomputation after it
C3_Witness ==
  /\ kind \in ExpiringKinds
  /\ Positive(ttl)
  /\ Len(log) = 3
  /\ log[1].out = "miss"
  /\ log[2].out = "hit"
  /\ log[3].out = "miss"
  /\ log[3].val = log[1].val + 1
  /\ probe[1] - probe[2] > ttl[1]

\* C4: expiring classes whose ttl is None, zero or negative, no __delete__:
\* a get that follows a get which returned a value is a hit with that value,
\* whatever the clock reads; no producer invocation starts after the one
\* whose entry is stored; with a producer that returns, the producer is
\* invoked at most once per instance and field.
C4_NoTTLNeverExpires ==
  (kind \in ExpiringKinds /\ ~Positive(ttl)) =>
    /\ \A i \in objs, f \in props :
         /\ ~raises => calls[i][f] <= 1
         /\ HasEntry(i, f) => Store(i)[f][1] = calls[i][f]
    /\ (/\ Len(log) >= 2
        /\ Prev.i = Last.i
        /\ Prev.f = Last.f
        /\ Prev.out \in {"hit", "miss"}) =>
         /\ Last.out = "hit"
         /\ Last.val = Prev.val

\* the first get computed the value, the next one was served it although the
\* clock had run to its bound in between
C4_Witness ==
  /\ kind \in ExpiringKinds
  /\ ~Positive(ttl)
  /\ Len(log) = 2
  /\ log[1].f = "f"
  /\ log[1].out = "miss"
  /\ log[2].f = "f"
  /\ log[2].out = "hit"
  /\ probe = <<MaxClock, 0>>
  /\ calls["A"]["f"] = 1

\* C5: expiring classes, any ttl, sequential get, __delete__, get on one
\* instance: the second get finds no entry, is never a hit, and invokes the
\* producer exactly once, so that with the invocation of a computing first
\* get there are exactly two; unless the producer raises, the second get
\* returns and stores the result of that second invocation.
C5_InvalidateRecompute ==
  (/\ kind \in ExpiringKinds
   /\ Len(log) = 3
   /\ log[1].out \in {"hit", "miss"}
   /\ log[2].out = "del"
   /\ IsGet(log[3])) =>
    /\ log[3].out # "hit"
    /\ probe[2] = -1
    /\ (Idle /\ log[1].out = "miss") => calls["A"]["f"] = log[1].val + 1
    /\ log[3].out = "miss" =>
         /\ log[3].val > log[1].val
         /\ Idle => log[3].val = calls["A"]["f"]
         /\ Idle => Store("A")["f"] = <<log[3].val, probe[1]>>

\* get, __delete__, get on a field that never expires: two invocations
C5_Witness ==
  /\ kind \in ExpiringKinds
  /\ ttl = <<>>
  /\ Len(log) = 3
  /\ log[1].out = "miss"
  /\ log[1].val = 1
  /\ log[2].out = "del"
  /\ log[3].out = "miss"
  /\ log[3].val = 2
  /\ calls["A"]["f"] = 2

\* C7: shadowing classes, sequential reads of one instance: a read that
\* follows a read which returned a value is served from obj.__dict__ without
\* entering __get__ and gets the same value; no producer invocation starts
\* after the one whose value was stored; with a producer that returns, the
\* producer is invoked exactly once.
C7_ShadowingBypass ==
  kind \in ShadowKinds =>
    /\ Shadowed("A", "f") =>
         /\ obj_dict["A"]["f"] = calls["A"]["f"]
         /\ ~raises => calls["A"]["f"] = 1
    /\ \A k \in 1..(Len(log) - 1) :
         Returned(log[k]) =>
           /\ log[k + 1].out = "bypass"
           /\ log[k + 1].val = log[k].val

\* the first read computed the value, two more reads were served it
C7_Witness ==
  /\ kind \in ShadowKinds
  /\ Len(log) = 3
  /\ log[1].out = "miss"
  /\ log[2].out = "bypass"
  /\ log[3].out = "bypass"
  /\ log[3].val = log[1].val
  /\ calls["A"]["f"] = 1

\* C9: producer failure, all four classes, sequential caller.
\* State part: a get that raised as the first operation leaves obj.__dict__
\* empty and obj._cache unset; one that follows a get which returned a value
\* leaves that value (and its timestamp) stored; a get that follows a get
\* which raised invokes the producer again and, unless it raises too, returns
\* and stores the new value.
C9_State ==
  /\ (Len(log) = 1 /\ Last.out = "raised" /\ Idle) =>
       /\ obj_cache["A"] = 0
       /\ obj_dict["A"] = EmptyDict
       /\ calls["A"]["f"] = 1
  /\ (/\ Len(log) >= 2
      /\ Prev.out \in {"hit", "miss"}
      /\ Last.out = "raised"
      /\ Idle) =>
       /\ kind \in ExpiringKinds
       /\ Store("A")["f"] = <<Prev.val, probe[2]>>
  /\ (Len(log) >= 2 /\ Prev.out = "raised" /\ Last.out # "del") =>
       /\ Last.out \in {"miss", "raised"}
       /\ (Last.out = "miss" /\ Idle) =>
            /\ Last.val = calls["A"]["f"]
            /\ kind \in ShadowKinds => obj_dict["A"]["f"] = Last.val
            /\ kind \in ExpiringKinds =>
                 Store("A")["f"] = <<Last.val, probe[1]>>

\* Step part: no step of __get__ up to and including the producer's raise
\* writes obj.__dict__, obj._cache or a dict.
C9_Step ==
  \A t \in Threads :
    (/\ pc[t] \in {"acquire", "check", "time", "load", "item", "call",
                   "running"}
     /\ pc'[t] # pc[t]) =>
      UNCHANGED <<obj_dict, obj_cache, dicts>>

C9_ProducerFailure == []C9_State /\ [][C9_Step]_vars

\* the first get on a fresh instance raised, the next one computed the value
C9_Witness ==
  /\ Len(log) = 2
  /\ log[1].out = "raised"
  /\ log[2].out = "miss"
  /\ log[2].val = 2
  /\ Idle

\* the positions between acquiring and releasing the lock
InLock ==
  {"check", "time", "load", "item", "call", "running", "set", "getcache",
   "mkcache", "store"}

\* how many calls of __get__ of binding f thread t has inside the locked
\* section: the one it is in, and the enclosing ones
Depth(t, f) ==
  (IF pc[t] \in InLock /\ fld[t] = f THEN 1 ELSE 0)
  + Cardinality({k \in 1..Len(stack[t]) : stack[t][k].fld = f})

\* how many invocations of the producer of binding f thread t has in
\* progress: the one it runs, and the enclosing ones that wait for a read
InProgress(t, f) ==
  (IF pc[t] = "running" /\ fld[t] = f THEN 1 ELSE 0)
  + Cardinality({k \in 1..Len(stack[t]) : stack[t][k].fld = f})

\* C10 as stated: guarded classes, one binding, all instances: at most one
\* thread is inside the locked section, at most one producer invocation of
\* the binding is in progress at a time, and a get on another instance waits
\* while a get is computing.
C10_OneInvocationAtATime ==
  Guarded =>
    \A f \in props :
      /\ Cardinality({t \in Threads : Depth(t, f) > 0}) <= 1
      /\ \A t \in Threads : InProgress(t, f) <= 1
      /\ \A t, u \in Threads :
           t # u => ~(InProgress(t, f) > 0 /\ InProgress(u, f) > 0)
      /\ \A t, u \in Threads :
           (InProgress(t, f) > 0 /\ pc[u] = "acquire" /\ fld[u] = f) =>
             ~ENABLED Acquire(u)

\* C10: guarded classes, one binding, all instances: at most one thread is
\* inside the locked section; the lock is owned by that thread, with one
\* count for each of its calls inside, and is free when no thread is inside;
\* a get of another thread, on any instance, cannot acquire the lock
\* meanwhile, while a get the owner's producer makes acquires it again at
\* once; so all producer invocations in progress are on one thread, each
\* but the innermost waiting for a read that its producer made.
C10_MutualExclusion ==
  Guarded =>
    \A f \in props :
      /\ Cardinality({t \in Threads : Depth(t, f) > 0}) <= 1
      /\ \A t \in Threads :
           /\ Depth(t, f) > 0 =>
                lock[f] = [owner |-> t, count |-> Depth(t, f)]
           /\ lock[f].owner = t => Depth(t, f) > 0
           /\ InProgress(t, f) <= Depth(t, f)
      /\ (\A t \in Threads : Depth(t, f) = 0) => lock[f] = Unlocked
      /\ \A t, u \in Threads :
           (t # u /\ Depth(t, f) > 0 /\ pc[u] = "acquire" /\ fld[u] = f) =>
             ~ENABLED Acquire(u)
      /\ \A t \in Threads :
           (Depth(t, f) > 0 /\ pc[t] = "acquire" /\ fld[t] = f) =>
             ENABLED Acquire(t)
      /\ \A t, u \in Threads :
           t # u => ~(InProgress(t, f) > 0 /\ InProgress(u, f) > 0)

\* the producer for A read B.f: the thread runs the producer for B inside
\* the get its producer for A made, with the lock counted twice, and the
\* other thread waits for the lock
C10_Witness ==
  /\ Guarded
  /\ \E t, u \in Threads :
       /\ pc[t] = "running"
       /\ obj[t] = "B"
       /\ Len(stack[t]) = 1
       /\ stack[t][1].obj = "A"
       /\ lock[fld[t]] = [owner |-> t, count |-> 2]
       /\ InProgress(t, fld[t]) = 2
       /\ pc[u] = "acquire"
       /\ stack[u] = <<>>
       /\ fld[u] = fld[t]

\* C6: __delete__ of the expiring classes, sequential caller, two fields.
\* State part: once __delete__ has returned the field has no entry; a get
\* that follows a __delete__ of the same field finds no entry and invokes the
\* producer, as a first get does.
C6_State ==
  /\ (Len(log) >= 1 /\ Last.out = "del" /\ Idle) => ~HasEntry(Last.i, Last.f)
  /\ (/\ Len(log) >= 2
      /\ Prev.out = "del"
      /\ Last.out # "del"
      /\ Last.i = Prev.i
      /\ Last.f = Prev.f) =>
       /\ Last.out \in {"miss", "raised"}
       /\ probe[2] = -1
       /\ (Last.out = "miss" /\ Idle) =>
            Store(Last.i)[Last.f] = <<calls[Last.i][Last.f], probe[1]>>

\* Step part: the step that completes a __delete__ always returns normally;
\* it leaves obj._cache bound to what it was bound to (an unset obj._cache
\* stays unset), leaves every other entry as it is, and changes nothing at
\* all when the field has no entry, which is the case for the second of two
\* __delete__ calls in a row.
C6_Step ==
  /\ \A t \in Threads :
       (pc[t] = "del" /\ pc'[t] # pc[t]) =>
         /\ pc'[t] = "idle"
         /\ log'[Len(log')] = Rec(obj[t], fld[t], "del", 0)
         /\ UNCHANGED <<obj_cache, obj_dict, calls>>
         /\ \A i \in objs \ {obj[t]} : Store(i)' = Store(i)
         /\ \A g \in DOMAIN Store(obj[t]) \ {fld[t]} :
              /\ g \in DOMAIN Store(obj[t])'
              /\ Store(obj[t])'[g] = Store(obj[t])[g]
         /\ ~HasEntry(obj[t], fld[t]) => UNCHANGED dicts
  /\ (pc' = pc /\ clock' = clock) =>
       /\ UNCHANGED <<obj_cache, obj_dict, calls, dicts>>
       /\ log'[Len(log')].out = "del"
       /\ obj_cache[log'[Len(log')].i] = 0

C6_InvalidateNoOp == []C6_State /\ [][C6_Step]_vars

\* __delete__ of f was called twice in a row while g stayed cached
C6_Witness ==
  /\ kind \in ExpiringKinds
  /\ Len(log) = 2
  /\ log[1] = Rec("A", "f", "del", 0)
  /\ log[2] = Rec("A", "f", "del", 0)
  /\ calls["A"]["f"] = 1
  /\ HasEntry("A", "g")
  /\ ~HasEntry("A", "f")
  /\ Idle

\* whether the next get of instance i would be served the stored value
WouldHit(i, f) ==
  /\ HasEntry(i, f)
  /\ ~Expired(ttl, clock, Store(i)[f][2])

\* C8: expiring classes, two instances sharing one binding.
\* State part: a get that was served a stored value was served the entry of
\* its own instance.
C8_State ==
  /\ \A i \in objs, f \in props :
       HasEntry(i, f) =>
         /\ calls[i][f] >= 1
         /\ Store(i)[f][1] <= calls[i][f]
  /\ (Len(log) >= 1 /\ Last.out = "hit" /\ Idle) =>
       Store(Last.i)[Last.f] = <<Last.val, probe[2]>>

\* Step part: every step of a get (hit, miss, recomputation, raise) or of a
\* __delete__ on one instance leaves the other instance's obj._cache, its
\* entry, its producer count and the outcome of its next get unchanged (the
\* clock's ticks, which belong to no instance, are not such steps).
C8_Step ==
  \A j \in objs :
    (/\ clock' = clock
     /\ \E t \in Threads :
          \/ pc[t] # "idle" /\ obj[t] # j
          \/ pc[t] = "idle" /\ pc'[t] # "idle" /\ obj'[t] # j
          \/ pc' = pc /\ log' # log /\ log'[Len(log')].i # j) =>
      /\ obj_cache'[j] = obj_cache[j]
      /\ Store(j)' = Store(j)
      /\ calls'[j] = calls[j]
      /\ obj_dict'[j] = obj_dict[j]
      /\ \A f \in props : WouldHit(j, f)' = WouldHit(j, f)

C8_InstanceIndependence == []C8_State /\ [][C8_Step]_vars

\* A recomputed after expiry, B still holds and serves its own first value
C8_Witness ==
  /\ HasEntry("A", "f")
  /\ HasEntry("B", "f")
  /\ Store("A")["f"][1] = 2
  /\ Store("B")["f"][1] = 1
  /\ Len(log) = 1
  /\ Last = Rec("B", "f", "hit", 1)
  /\ Idle

\* whether no store into the cell (i, f) is logged after position k
NoLaterStore(k, i, f) ==
  \A m \in (k + 1)..Len(log) :
    ~(log[m].i = i /\ log[m].f = f /\ log[m].out = "miss")

\* C11: cached_property, every thread reading the same fields.
\* State part: with a producer that returns, the producer is invoked at most
\* once per calling thread; the value in obj.__dict__ is the result of some
\* invocation and is the value of the last store, and a read served from
\* obj.__dict__ after the last store returns it.
C11_State ==
  kind = "cached_property" =>
    \A i \in objs, f \in props :
      /\ ~raises => calls[i][f] <= Cardinality(callers)
      /\ Shadowed(i, f) => obj_dict[i][f] \in 1..calls[i][f]
      /\ \A k \in 1..Len(log) :
           (/\ log[k].i = i
            /\ log[k].f = f
            /\ log[k].out \in {"miss", "bypass"}
            /\ NoLaterStore(k, i, f)) =>
             /\ Shadowed(i, f)
             /\ obj_dict[i][f] = log[k].val

\* Step part: a thread that leaves __get__ stores and returns the result of
\* its own invocation, whatever obj.__dict__ held before.
C11_Step ==
  \A t \in Threads :
    (kind = "cached_property" /\ pc[t] = "set" /\ pc'[t] # pc[t]) =>
      /\ inv[t] >= 1
      /\ obj_dict'[obj[t]][fld[t]] = inv[t]
      /\ log'[Len(log')] = Rec(obj[t], fld[t], "miss", inv[t])

C11_UnguardedLastStoreWins == []C11_State /\ [][C11_Step]_vars

\* two threads computed the field of A; the first invocation stored last
C11_Witness ==
  /\ kind = "cached_property"
  /\ ~raises
  /\ calls["A"]["f"] = 2
  /\ log = <<Rec("A", "f", "miss", 2), Rec("A", "f", "miss", 1)>>
  /\ obj_dict["A"]["f"] = 1
  /\ Idle

\* C12: cached_property_with_ttl, two threads on one instance: once every
\* call has returned, the entry of the field is the (value, now) pair of the
\* get that wrote last.
C12_LastWriteWins ==
  (/\ kind = "cached_property_with_ttl"
   /\ Idle
   /\ Len(log) >= 1
   /\ Last.out = "miss") =>
    /\ HasEntry(Last.i, Last.f)
    /\ Store(Last.i)[Last.f] = <<Last.val, probe[1]>>

\* C13: a hit of the expiring classes, sequential caller.
\* State part: after a get that was served the stored value, the entry is
\* that value with the timestamp the get found, not the time of the get, and
\* with a positive ttl the get was made within ttl of that timestamp.
C13_State ==
  (kind \in ExpiringKinds /\ Len(log) >= 1 /\ Last.out = "hit" /\ Idle) =>
    /\ Store("A")["f"] = <<Last.val, probe[2]>>
    /\ Positive(ttl) => probe[1] - probe[2] <= ttl[1]

\* Step part: the step in which __get__ returns the stored value starts no
\* producer invocation and writes neither obj._cache nor a dict.
C13_Step ==
  \A t \in Threads :
    (pc[t] = "item" /\ pc'[t] = "idle") =>
      /\ log'[Len(log')].out = "hit"
      /\ UNCHANGED <<obj_cache, dicts, calls, obj_dict>>

C13_HitChangesNothing == []C13_State /\ [][C13_Step]_vars

\* a hit made one tick after the computation left the timestamp as it was
C13_Witness ==
  /\ kind \in ExpiringKinds
  /\ Positive(ttl)
  /\ Len(log) >= 2
  /\ Prev.out = "miss"
  /\ Last.out = "hit"
  /\ probe[1] = probe[2] + 1
  /\ Store("A")["f"] = <<Last.val, probe[2]>>
  /\ Idle

\* C14: a miss of the expiring classes, sequential caller on one instance
\* and field: the entry written by the get is stamped with a time not before
\* the producer's return, so that at the instant the get has written it a get
\* of the same field would be served it.
C14_WrittenEntryIsValid ==
  [][\A t \in Threads :
       (kind \in ExpiringKinds /\ pc[t] = "store" /\ pc'[t] = "idle") =>
         WouldHit("A", "f")']_vars

\* C14 as it holds: a miss of the expiring classes, sequential caller.
\* State part: after a get that computed, the value returned is the result
\* of the latest invocation and the entry is that value with the clock
\* reading the get took before its lookup.
C14_State ==
  (kind \in ExpiringKinds /\ Len(log) >= 1 /\ Last.out = "miss" /\ Idle) =>
    /\ Last.val = calls["A"]["f"]
    /\ Store("A")["f"] = <<Last.val, probe[1]>>
    /\ probe[1] <= clock

\* Step part: `now` is read before the producer is entered and is not read
\* again; the step that writes the entry stores the result of the thread's
\* one invocation with that `now`, replacing whatever entry was there, and
\* the entry is valid at that instant exactly when no more than ttl has
\* passed since `now` was read.
C14_Step ==
  \A t \in Threads :
    /\ (/\ pc[t] \in {"call", "running", "getcache", "mkcache", "store"}
        /\ pc'[t] # "idle") =>
         /\ now'[t] = now[t]
         /\ now[t] <= clock
    /\ (pc[t] \in {"running", "getcache", "mkcache", "store"}) =>
         calls' = calls
    /\ (kind \in ExpiringKinds /\ pc[t] = "store" /\ pc'[t] = "idle") =>
         /\ inv[t] = calls["A"]["f"]
         /\ Store("A")["f"]' = <<inv[t], now[t]>>
         /\ log'[Len(log')] = Rec("A", "f", "miss", inv[t])
         /\ WouldHit("A", "f")' = ~Expired(ttl, clock, now[t])

C14_MissStampsStartOfGet == []C14_State /\ [][C14_Step]_vars

\* a recomputation replaced the expired entry, and the new entry carries a
\* timestamp older than the clock's reading
C14_Witness ==
  /\ kind \in ExpiringKinds
  /\ Positive(ttl)
  /\ Len(log) >= 2
  /\ Prev.out = "miss"
  /\ Last.out = "miss"
  /\ Last.val = 2
  /\ probe[2] >= 0
  /\ Store("A")["f"] = <<2, probe[1]>>
  /\ clock > probe[1]
  /\ Idle

\* C15: __delete__ of threaded_cached_property_with_ttl, two threads.
\* State part: whoever owns the lock, a __delete__ can start and a __delete__
\* that has started can finish.
C15_State ==
  \A t \in callers :
    /\ pc[t] = "idle" =>
         ENABLED (DeleteNoCache(t, "A", "f") \/ DeleteEnter(t, "A", "f"))
    /\ pc[t] = "del" => ENABLED DeleteItem(t)

\* Step part: a step of __delete__ neither takes nor frees the lock and
\* leaves the get of the other thread where it is; the get that owns the
\* lock writes its entry whatever was deleted meanwhile.
C15_Step ==
  \A t \in Threads :
    /\ (\/ pc[t] = "del" /\ pc'[t] # "del"
        \/ pc[t] # "del" /\ pc'[t] = "del"
        \/ pc' = pc /\ log' # log) =>
         /\ lock' = lock
         /\ \A u \in Threads \ {t} : pc'[u] = pc[u]
    /\ (pc[t] = "store" /\ pc'[t] = "idle") =>
         /\ lock[fld[t]].owner = t
         /\ Store("A")["f"]' = <<inv[t], now[t]>>

C15_DeleteIgnoresLock == []C15_State /\ [][C15_Step]_vars

\* A get found an expired entry and invoked the producer for the second
\* time; a __delete__ returned before that get wrote; the get then wrote the
\* entry, which is there with nothing having run since the __delete__ but
\* the rest of that get.
C15_Witness ==
  /\ kind = "threaded_cached_property_with_ttl"
  /\ log = <<Rec("A", "f", "del", 0), Rec("A", "f", "miss", 2)>>
  /\ probe[2] >= 0
  /\ HasEntry("A", "f")
  /\ Store("A")["f"] = <<2, probe[1]>>
  /\ Idle

\* C16: threaded_cached_property, every thread reading two instances.
\* State part: once obj.__dict__ holds the field, a read of it by an idle
\* thread can complete at once, whoever owns the lock, and cannot enter
\* __get__.
C16_State ==
  kind = "threaded_cached_property" =>
    \A t \in callers, i \in objs, f \in props :
      (pc[t] = "idle" /\ f \in DOMAIN obj_dict[i]) =>
        /\ ENABLED ReadShadowed(t, i, f)
        /\ ~ENABLED ReadEnter(t, i, f)

\* Step part: such a read is one step that returns the value held in
\* obj.__dict__ and neither takes nor frees the lock nor moves any thread.
C16_Step ==
  (kind = "threaded_cached_property" /\ pc' = pc /\ log' # log) =>
    /\ lock' = lock
    /\ obj_dict' = obj_dict
    /\ calls' = calls
    /\ LET r == log'[Len(log')]
       IN /\ r.out = "bypass"
          /\ r.f \in DOMAIN obj_dict[r.i]
          /\ r.val = obj_dict[r.i][r.f]

C16_SteadyStateNoLock == []C16_State /\ [][C16_Step]_vars

\* a read of A was served from A.__dict__; a thread owns the lock and runs
\* the producer for B
C16_Witness ==
  /\ kind = "threaded_cached_property"
  /\ "f" \in DOMAIN obj_dict["A"]
  /\ "f" \notin DOMAIN obj_dict["B"]
  /\ Len(log) = 2
  /\ Last = Rec("A", "f", "bypass", obj_dict["A"]["f"])
  /\ \E u \in Threads :
       /\ lock["f"].owner = u
       /\ pc[u] = "running"
       /\ obj[u] = "B"

\* C17: the expiring classes: a step in which the clock advances leaves
\* obj._cache and every dict as they are; an entry appears or changes only in
\* the step in which a get of that instance and field writes it, and
\* disappears only in the step in which a __delete__ of that instance and
\* field removes it.
C17_Step ==
  /\ clock' # clock => UNCHANGED <<obj_cache, dicts>>
  /\ \A i \in objs, f \in props :
       /\ (/\ HasEntry(i, f)'
           /\ ~HasEntry(i, f) \/ Store(i)[f]' # Store(i)[f]) =>
            \E t \in Threads :
              pc[t] = "store" /\ pc'[t] = "idle" /\ obj[t] = i /\ fld[t] = f
       /\ (HasEntry(i, f) /\ ~HasEntry(i, f)') =>
            \E t \in Threads :
              pc[t] = "del" /\ pc'[t] = "idle" /\ obj[t] = i /\ fld[t] = f

C17_LazyExpiry == [][C17_Step]_vars

\* C18: guarded classes, two threads, two instances, producer failure.
\* State part: the lock of a binding is owned only by a thread that has a
\* get of that binding inside the locked section; a get waiting for a lock
\* that no thread is inside of can acquire it.
C18_State ==
  Guarded =>
    /\ \A f \in props :
         lock[f].owner # 0 => Depth(lock[f].owner, f) > 0
    /\ \A u \in Threads :
         (/\ pc[u] = "acquire"
          /\ \A t \in Threads : Depth(t, fld[u]) = 0) =>
           ENABLED Acquire(u)

\* Step part: the step in which the producer raises ends the get and gives
\* up the hold that get had on the lock: the lock is free when the get was
\* made by a caller, and is left with the enclosing get of the same thread
\* when the get was made by that get's producer.
C18_Step ==
  \A t \in Threads :
    (/\ Guarded
     /\ pc[t] = "running"
     /\ pc'[t] = "idle" \/ Len(stack'[t]) < Len(stack[t])) =>
      /\ lock[fld[t]].owner = t
      /\ lock'[fld[t]] = Released(lock[fld[t]])
      /\ stack[t] = <<>> => lock'[fld[t]] = Unlocked
      /\ stack[t] # <<>> =>
           /\ lock'[fld[t]].owner = t
           /\ pc'[t] = "running"
           /\ Depth(t, fld[t])' = Depth(t, fld[t]) - 1
      /\ UNCHANGED <<obj_dict, obj_cache, dicts>>

C18_LockReleasedOnFailure == []C18_State /\ [][C18_Step]_vars

\* the one producer invocation for A raised (A has no cached state and no
\* get in progress); a get on B then acquired the lock and runs the producer
C18_Witness ==
  /\ Guarded
  /\ raises
  /\ calls["A"]["f"] = 1
  /\ obj_dict["A"] = EmptyDict
  /\ obj_cache["A"] = 0
  /\ \A t \in Threads : pc[t] # "idle" => obj[t] # "A"
  /\ \E u \in Threads :
       /\ lock["f"].owner = u
       /\ pc[u] = "running"
       /\ obj[u] = "B"

\* C19: guarded classes, two threads that make finitely many calls, every
\* thread inside a call scheduled fairly, every producer invocation ending:
\* every call that has started returns or raises, and a lock that is owned
\* is freed.
C19_GuardedLiveness ==
  /\ \A t \in Threads : (pc[t] # "idle") ~> (pc[t] = "idle")
  /\ \A f \in Names : (lock[f].owner # 0) ~> (lock[f].owner = 0)

\* a get waits for the lock while the other thread runs the producer, and
\* no caller has a call left to make
C19_Witness ==
  /\ Guarded
  /\ todo = 0
  /\ \E t, u \in Threads :
       /\ pc[t] = "acquire"
       /\ lock[fld[t]].owner = u
       /\ pc[u] = "running"

\* C20: expiring classes with a positive ttl, guarded or not, two threads:
\* the value a get returns is the result of an invocation of the producer
\* that was entered no earlier than ttl before the `now` that get read.
C20_FreshnessBound ==
  (/\ kind \in ExpiringKinds
   /\ Positive(ttl)
   /\ Len(log) >= 1
   /\ Last.out \in {"hit", "miss"}) =>
    /\ Last.val \in 1..Len(begun[Last.i][Last.f])
    /\ begun[Last.i][Last.f][Last.val] >= probe[1] - ttl[1]

\* a get was served a value whose invocation was entered exactly ttl before
\* the get read the clock
C20_Witness ==
  /\ kind \in ExpiringKinds
  /\ Positive(ttl)
  /\ Len(log) = 1
  /\ Last.out = "hit"
  /\ begun[Last.i][Last.f][Last.val] = probe[1] - ttl[1]

=============================================================================
